---- MODULE Spec2Model ----
(***************************************************************************)
(* CodeGuardian: the diff-to-comment pipeline.                             *)
(*                                                                         *)
(*   src/src/diff_parser.py   parse_patch, filter_reviewable_files,        *)
(*                            get_valid_comment_lines                      *)
(*   src/src/review.py        validate_comment_lines, build_summary, main  *)
(*   src/src/ai_reviewer.py   AIReviewer (review_files, review_diff,       *)
(*                            _call_openai, _mock_response)                *)
(*   src/src/github_client.py, src/src/gitlab_client.py                    *)
(*                            post_review_comments, post_error_comment     *)
(*                                                                         *)
(* Seven specifications share the module's variables; each pins the         *)
(* variables of the others:                                                *)
(*   SpecParse     parse_patch, one raw line per step                      *)
(*   SpecFilter    filter_reviewable_files applied to a drawn file list    *)
(*   SpecValidate  validate_comment_lines applied to drawn comments        *)
(*   Spec          main: the whole run, with the retry loop of             *)
(*                 _call_openai nested in review_files                     *)
(*   SpecLong      main on GitHub, the backend answering with long lists   *)
(*   SpecSummary   build_summary applied to a drawn comment list           *)
(*   SpecPost      post_review_comments of GitHubClient and GitLabClient   *)
(*                 applied to drawn comments and platform answers          *)
(***************************************************************************)
EXTENDS Integers, Sequences, FiniteSets, TLC

VARIABLES
    \* ---- parse_patch (SpecParse)
    patch,              \* the raw lines of the patch read so far (patch.split("\n"))
    parse_pc,           \* "start" | "loop" | "returned"
    current_new_line,   \* the running NEW-file line counter
    result,             \* the DiffLines emitted so far
    \* ---- filter_reviewable_files (SpecFilter)
    in_files,           \* the argument `files`
    filter_pc,          \* "call" | "returned"
    out_files,          \* the returned list
    \* ---- validate_comment_lines (SpecValidate)
    in_comments,        \* the argument `comments`
    in_patches,         \* the argument `file_patches`
    validate_pc,        \* "call" | "returned"
    out_comments,       \* the returned list
    \* ---- main (Spec): the run's environment
    env_platform,       \* what create_platform detects: "github" | "gitlab" | "none"
    from_fork,          \* head repository differs from base repository
    api_key,            \* OPENAI_API_KEY: "" | "mock" | "sk"
    pr_files,           \* what platform.get_files() returns
    long_replies,       \* the backend may answer with more comments than one batch
    \* ---- main: locals and position
    pc,                 \* main's position
    project_context,    \* _fetch_project_context's result
    is_fork_result,     \* what platform.is_fork() returned, "not_called" before
    reviewable,         \* filter_reviewable_files(file_dicts)
    is_mock,            \* AIReviewer._is_mock
    error,              \* the exception in flight or caught by main's handler
    exit_status,        \* "running" | "returned" | "sys_exit_0" | "sys_exit_1" | "raised"
    propagated,         \* the exception that left main, "" when none
    \* ---- AIReviewer.review_files / review_diff / _call_openai
    file_idx,           \* index in `files` of the file under review (1-based)
    all_comments,       \* review_files.all_comments
    call_pc,            \* "idle" | "loop" | "returned" | "raised", of the current review_diff
    attempt,            \* _call_openai's loop variable
    last_response,      \* the ReviewResponse the current review_diff returned
    \* ---- what the run did, as a test double would record it
    io_log,             \* backend calls and sleeps of the current review_diff, in order
    reviewed,           \* file paths review_diff was called with, in order
    outcomes,           \* the ReviewResponses review_diff returned, in order
    get_files_calls,    \* number of platform.get_files() calls
    reviewer_ctor_calls,\* number of AIReviewer(...) constructions
    review_posts,       \* arguments of the post_review_comments calls, in order
    error_notes,        \* arguments of the post_error_comment calls, in order
    raised_at,          \* the steps after get_files that raised, in order
    \* ---- build_summary (SpecSummary)
    summary_in,         \* the argument `comments`
    summary_pc,         \* "call" | "returned"
    summary_out,        \* the returned text
    \* ---- post_review_comments (SpecPost)
    post_platform,      \* the client: "github" | "gitlab"
    post_in,            \* the argument `comments`
    post_answers,       \* how the platform answers the calls of this post
    post_pc,            \* "call" | "returned" | "raised"
    post_out            \* the platform calls made, in order, and the exception raised

parseVars == <<patch, parse_pc, current_new_line, result>>
filterVars == <<in_files, filter_pc, out_files>>
validateVars == <<in_comments, in_patches, validate_pc, out_comments>>
envVars == <<env_platform, from_fork, api_key, pr_files, long_replies>>
mainVars == <<pc, project_context, is_fork_result, reviewable, is_mock, error,
              exit_status, propagated>>
reviewVars == <<file_idx, all_comments, call_pc, attempt, last_response>>
logVars == <<io_log, reviewed, outcomes, get_files_calls, reviewer_ctor_calls, review_posts,
             error_notes, raised_at>>
runVars == <<envVars, mainVars, reviewVars, logVars>>
summaryVars == <<summary_in, summary_pc, summary_out>>
postVars == <<post_platform, post_in, post_answers, post_pc, post_out>>
utilVars == <<summaryVars, postVars>>

\* An optional value (`str | None`): None, or Some(v)
None == [is_none |-> TRUE, value |-> <<>>]
Some(v) == [is_none |-> FALSE, value |-> v]

(***************************************************************************)
(* Bounds of the model.                                                    *)
(***************************************************************************)
\* longest patch, in raw lines, that SpecParse reads
MaxPatchLen == 5
\* longest file list SpecFilter draws
MaxFilterFiles == 3
\* longest comment list SpecValidate draws
MaxComments == 3
\* longest file list get_files returns in Spec
MaxPRFiles == 2
MaxSummaryComments == 4
MaxPostComments == 61

(***************************************************************************)
(* Raw lines of a unified diff.  A raw line is what the parser can see of  *)
(* it: its first character (prefix), the rest (content), and, for a line   *)
(* that HUNK_HEADER_PATTERN matches, group(3) of the match (newStart).     *)
(*   prefix "@@"  a line the hunk-header pattern matches                   *)
(*   prefix "\\"  "\ No newline at end of file"                            *)
(*   prefix ""    the empty raw line                                       *)
(*   prefix "+", "-", " "   addition, deletion, context                    *)
(*   prefix "o"   any other first character ("diff --git", a lone "@")     *)
(***************************************************************************)
Backslash == "\\"

\* new-start values the hunk headers of the model carry
HunkStarts == {1, 10}

Contents == {"x"}

RawLine(prefix, newStart, content) ==
    [prefix |-> prefix, newStart |-> newStart, content |-> content]

Hdr(n) == RawLine("@@", n, "")
Add == RawLine("+", 0, "x")
Del == RawLine("-", 0, "x")
Ctx == RawLine(" ", 0, "x")
Empty == RawLine("", 0, "")
NoNewline == RawLine(Backslash, 0, " No newline at end of file")
Other == RawLine("o", 0, "x")

RawLines == {Hdr(n) : n \in HunkStarts} \cup {Add, Del, Ctx, Empty, NoNewline, Other}

\* HUNK_HEADER_PATTERN.match(raw_line)
HUNK_HEADER_PATTERN(raw_line) == raw_line.prefix = "@@"

DiffLine(line_number, content, is_addition, is_deletion, is_context) ==
    [line_number |-> line_number, content |-> content,
     is_addition |-> is_addition, is_deletion |-> is_deletion,
     is_context |-> is_context]

\* parse_line with a deletion consuming a NEW-file line number
parse_line_DeletionCounts(st, raw_line) ==
    IF raw_line.prefix = Backslash THEN st
    ELSE IF HUNK_HEADER_PATTERN(raw_line)
        THEN [st EXCEPT !.current_new_line = raw_line.newStart]
    ELSE IF raw_line.prefix = "" THEN st
    ELSE IF raw_line.prefix \in {"+", " "}
        THEN [result |-> Append(st.result,
                  DiffLine(st.current_new_line, raw_line.content,
                           raw_line.prefix = "+", FALSE, raw_line.prefix = " ")),
              current_new_line |-> st.current_new_line + 1]
    ELSE IF raw_line.prefix = "-"
        THEN [st EXCEPT !.current_new_line = st.current_new_line + 1]
    ELSE st

\* parse_line with a deletion emitted as a DiffLine
parse_line_DeletionEmitted(st, raw_line) ==
    IF raw_line.prefix = Backslash THEN st
    ELSE IF HUNK_HEADER_PATTERN(raw_line)
        THEN [st EXCEPT !.current_new_line = raw_line.newStart]
    ELSE IF raw_line.prefix = "" THEN st
    ELSE IF raw_line.prefix \in {"+", " "}
        THEN [result |-> Append(st.result,
                  DiffLine(st.current_new_line, raw_line.content,
                           raw_line.prefix = "+", FALSE, raw_line.prefix = " ")),
              current_new_line |-> st.current_new_line + 1]
    ELSE IF raw_line.prefix = "-"
        THEN [st EXCEPT !.result = Append(st.result,
                  DiffLine(st.current_new_line, raw_line.content, FALSE, TRUE, FALSE))]
    ELSE st

(***************************************************************************)
(* parse_patch: the body of the for loop, for one raw line.  st is the     *)
(* pair of locals (result, current_new_line).                              *)
(***************************************************************************)
parse_line(st, raw_line) ==
    IF raw_line.prefix = Backslash THEN st
    ELSE IF HUNK_HEADER_PATTERN(raw_line)
        THEN [st EXCEPT !.current_new_line = raw_line.newStart]
    ELSE IF raw_line.prefix = "" THEN st
    ELSE IF raw_line.prefix = "+"
        THEN [result |-> Append(st.result,
                  DiffLine(st.current_new_line, raw_line.content, TRUE, FALSE, FALSE)),
              current_new_line |-> st.current_new_line + 1]
    ELSE IF raw_line.prefix = "-" THEN st
    ELSE IF raw_line.prefix = " "
        THEN [result |-> Append(st.result,
                  DiffLine(st.current_new_line, raw_line.content, FALSE, FALSE, TRUE)),
              current_new_line |-> st.current_new_line + 1]
    ELSE st

RECURSIVE parse_loop(_, _)
parse_loop(st, lines) ==
    IF lines = <<>> THEN st
    ELSE parse_loop(parse_line(st, Head(lines)), Tail(lines))

\* parse_patch(patch): the empty text returns [] at once
parse_patch(p) ==
    IF p = <<>> THEN <<>>
    ELSE parse_loop([result |-> <<>>, current_new_line |-> 0], p).result

\* get_valid_comment_lines(patch)
get_valid_comment_lines(p) ==
    LET diff_lines == parse_patch(p)
    IN {diff_lines[i].line_number : i \in 1..Len(diff_lines)}

(***************************************************************************)
(* File names are sequences of characters, so that rfind(".") and the      *)
(* slice filename[dot_index:] are computed as the code computes them.      *)
(***************************************************************************)
main_py == <<"m", "a", "i", "n", ".", "p", "y">>
app_ts == <<"a", "p", "p", ".", "t", "s">>
ui_js == <<"u", "i", ".", "j", "s">>
index_html == <<"i", "n", "d", "e", "x", ".", "h", "t", "m", "l">>
removed_py == <<"r", "e", "m", "o", "v", "e", "d", ".", "p", "y">>
big_py == <<"b", "i", "g", ".", "p", "y">>
logo_png == <<"l", "o", "g", "o", ".", "p", "n", "g">>
README_md == <<"R", "E", "A", "D", "M", "E", ".", "m", "d">>
Makefile == <<"M", "a", "k", "e", "f", "i", "l", "e">>
notes_py_md == <<"n", "o", "t", "e", "s", ".", "p", "y", ".", "m", "d">>
cache_pyc == <<"c", "a", "c", "h", "e", ".", "p", "y", "c">>
v2_Makefile == <<"v", ".", "2", "/", "M", "a", "k", "e", "f", "i", "l", "e">>
ghost_py == <<"g", "h", "o", "s", "t", ".", "p", "y">>

REVIEWABLE_EXTENSIONS ==
    {<<".", "p", "y">>, <<".", "j", "s">>, <<".", "t", "s">>, <<".", "h", "t", "m", "l">>}

\* patches of the model's files
PatchA == <<Hdr(10), Ctx, Add, Del, Add>>       \* NEW-file lines 10, 11, 12
PatchB == <<Hdr(1), Add, Hdr(10), Add>>         \* NEW-file lines 1, 10
PatchDel == <<Hdr(1), Del, Del>>                \* deletions only
PatchNone == <<>>                               \* the empty text

\* a file dict as main builds it from a PlatformFile
FileDict(filename, p, additions, deletions) ==
    [filename |-> filename, patch |-> p, additions |-> additions,
     deletions |-> deletions]

\* the file dicts SpecFilter draws its lists from
FilterPool ==
    { FileDict(main_py, Some(PatchA), 2, 1),
      FileDict(app_ts, Some(PatchB), 2, 0),
      FileDict(ui_js, Some(PatchB), 2, 0),
      FileDict(index_html, Some(PatchA), 2, 1),
      FileDict(removed_py, Some(PatchDel), 0, 2),
      FileDict(big_py, None, 1, 0),
      FileDict(logo_png, None, 0, 0),
      FileDict(README_md, Some(PatchB), 2, 0),
      FileDict(Makefile, Some(PatchB), 2, 0),
      FileDict(notes_py_md, Some(PatchB), 2, 0),
      FileDict(cache_pyc, Some(PatchB), 2, 0),
      FileDict(v2_Makefile, Some(PatchB), 2, 0) }

\* all sequences over S of length at most n
SeqUpTo(S, n) == UNION {[1..k -> S] : k \in 0..n}

\* str.rfind(ch): Python's 0-based index of the last ch in s, -1 when absent
rfind(s, ch) ==
    LET at == {i \in 1..Len(s) : s[i] = ch}
    IN IF at = {} THEN -1 ELSE (CHOOSE i \in at : \A j \in at : j <= i) - 1

\* s[start:], start a 0-based index
SliceFrom(s, start) == SubSeq(s, start + 1, Len(s))

\* filter_reviewable_files: the loop body's decision for one file, with the
\* extension test on the whole file name instead of the slice after the last dot
keep_file_AnyDot(file) ==
    /\ ~file.patch.is_none
    /\ file.additions # 0
    /\ \E i \in 1..Len(file.filename) :
         /\ file.filename[i] = "."
         /\ \E e \in REVIEWABLE_EXTENSIONS :
              SubSeq(file.filename, i, i + Len(e) - 1) = e

\* filter_reviewable_files: the loop body's decision for one file
keep_file(file) ==
    LET filename == file.filename
        dot_index == rfind(filename, ".")
    IN IF file.patch.is_none THEN FALSE
       ELSE IF file.additions = 0 THEN FALSE
       ELSE IF dot_index = -1 THEN FALSE
       ELSE IF SliceFrom(filename, dot_index) \notin REVIEWABLE_EXTENSIONS THEN FALSE
       ELSE TRUE

\* the loop collecting the kept files last first
RECURSIVE filter_loop_Reversed(_, _)
filter_loop_Reversed(files, acc) ==
    IF files = <<>> THEN acc
    ELSE filter_loop_Reversed(Tail(files),
                     IF keep_file(Head(files)) THEN <<Head(files)>> \o acc ELSE acc)

RECURSIVE filter_loop(_, _)
filter_loop(files, acc) ==
    IF files = <<>> THEN acc
    ELSE filter_loop(Tail(files),
                     IF keep_file(Head(files)) THEN Append(acc, Head(files)) ELSE acc)

\* filter_reviewable_files(files)
filter_reviewable_files(files) == filter_loop(files, <<>>)

(***************************************************************************)
(* validate_comment_lines                                                  *)
(***************************************************************************)
ReviewComment(file_path, line_number, severity, category, comment) ==
    [file_path |-> file_path, line_number |-> line_number, severity |-> severity,
     category |-> category, comment |-> comment]

\* dict.get(key) of a dict of texts: None when the key is absent
DictGet(d, key) == IF key \in DOMAIN d THEN Some(d[key]) ELSE None

\* the loop body's decision with a comment on a file without a patch let through
keep_comment_MissingPatchKept(comment, file_patches) ==
    LET p == DictGet(file_patches, comment.file_path)
    IN IF p.is_none THEN TRUE
       ELSE comment.line_number \in get_valid_comment_lines(p.value)

\* validate_comment_lines: the loop body's decision for one comment
keep_comment(comment, file_patches) ==
    LET p == DictGet(file_patches, comment.file_path)
    IN IF p.is_none THEN FALSE
       ELSE comment.line_number \in get_valid_comment_lines(p.value)

\* the loop leaving at the first comment on a file without a patch
RECURSIVE validate_loop_BreakOnMissing(_, _, _)
validate_loop_BreakOnMissing(comments, file_patches, valid_comments) ==
    IF comments = <<>> THEN valid_comments
    ELSE IF DictGet(file_patches, Head(comments).file_path).is_none
        THEN valid_comments
    ELSE validate_loop_BreakOnMissing(Tail(comments), file_patches,
                       IF keep_comment(Head(comments), file_patches)
                           THEN Append(valid_comments, Head(comments))
                           ELSE valid_comments)

RECURSIVE validate_loop(_, _, _)
validate_loop(comments, file_patches, valid_comments) ==
    IF comments = <<>> THEN valid_comments
    ELSE validate_loop(Tail(comments), file_patches,
                       IF keep_comment(Head(comments), file_patches)
                           THEN Append(valid_comments, Head(comments))
                           ELSE valid_comments)

\* validation that passes every comment through
validate_comment_lines_Unchecked(comments, file_patches) == comments

\* validate_comment_lines(comments, file_patches)
validate_comment_lines(comments, file_patches) ==
    validate_loop(comments, file_patches, <<>>)

(***************************************************************************)
(* AIReviewer: the backend's replies and _call_openai's handling of one.   *)
(***************************************************************************)
MAX_RETRIES == 3

\* github_client.py: the number of comments of one batch review
REVIEW_COMMENT_CHUNK_SIZE == 30

RECURSIVE Pow2(_)
Pow2(n) == IF n = 0 THEN 1 ELSE 2 * Pow2(n - 1)

\* a text, as the pieces of the literal or f-string that builds it
Text(piece) == <<piece>>

ReviewResponse(comments, summary) == [comments |-> comments, summary |-> summary]

\* What one chat.completions.create call gives: an exception (exc), or a
\* response with choices[0].message.refusal, choices[0].finish_reason and the
\* payload message.content, which json.loads and model_validate accept
\* ("valid", then comments and summary are its parse) or reject ("malformed").
Reply(exc, refusal, finish_reason, payload, comments, summary) ==
    [exc |-> exc, refusal |-> refusal, finish_reason |-> finish_reason,
     payload |-> payload, comments |-> comments, summary |-> summary]

ExcReply(exc) == Reply(exc, FALSE, "", "", <<>>, Text(""))
NoReply == Reply("", FALSE, "", "", <<>>, Text(""))

\* exceptions of the openai client: the three _call_openai names, and one it
\* does not (a connection failure)
BackendExceptions ==
    {"AuthenticationError", "BadRequestError", "RateLimitError", "APIConnectionError"}

\* the comment lists a well-formed reply may carry for a file: none, one on a
\* line of the diff, lines outside the diff, a path that is not in the change
ResponseChoices(file_path) ==
    { <<>>,
      <<ReviewComment(file_path, 11, "error", "bug", "c")>>,
      <<ReviewComment(file_path, 1, "warning", "security", "c"),
        ReviewComment(file_path, 999, "info", "readability", "c")>>,
      <<ReviewComment(ghost_py, 1, "error", "bug", "c"),
        ReviewComment(file_path, 11, "warning", "performance", "c")>> }

\* a comment list longer than one batch review takes, all on a line of the diff
LongReview(file_path) ==
    [i \in 1..(REVIEW_COMMENT_CHUNK_SIZE + 1) |->
        ReviewComment(file_path, 11, "info", "readability", "c")]

BackendReplies(file_path) ==
    {ExcReply(e) : e \in BackendExceptions}
    \cup {Reply("none", TRUE, fr, "malformed", <<>>, Text("")) : fr \in {"stop", "length"}}
    \cup {Reply("none", FALSE, "length", "malformed", <<>>, Text(""))}
    \cup {Reply("none", FALSE, "stop", "malformed", <<>>, Text(""))}
    \cup {Reply("none", FALSE, "stop", "valid", cs, Text("reviewed")) :
              cs \in ResponseChoices(file_path)
                       \cup (IF long_replies THEN {LongReview(file_path)} ELSE {})}

RefusalResponse == ReviewResponse(<<>>, Text(""))
TruncatedResponse ==
    ReviewResponse(<<>>, Text("Error: Response truncated due to token limit."))
ContentFilterResponse ==
    ReviewResponse(<<>>, Text("Error: Content was filtered by the API."))
\* f"Error: Rate limit exceeded after {MAX_RETRIES} retries."
RateLimitResponse ==
    ReviewResponse(<<>>, <<"Error: Rate limit exceeded after ", MAX_RETRIES, " retries.">>)

\* what one iteration of _call_openai's loop does with the backend's reply:
\* return a response, raise, or go on to the next iteration after `sleeps`
StepReturn(response) ==
    [next |-> "return", response |-> response, exc |-> "", sleeps |-> <<>>]
StepRaise(exc) ==
    [next |-> "raise", response |-> RefusalResponse, exc |-> exc, sleeps |-> <<>>]
\* a retry without the backoff sleep
StepRetry_NoSleep(sleeps) ==
    [next |-> "retry", response |-> RefusalResponse, exc |-> "", sleeps |-> <<>>]
StepRetry(sleeps) ==
    [next |-> "retry", response |-> RefusalResponse, exc |-> "", sleeps |-> sleeps]

\* the backoff computed from the loop variable as it is (1, 2 seconds)
wait_time_FromZero(attempt_no) == Pow2(attempt_no)

\* wait_time = 2 ** (attempt + 1), attempt the loop variable of range(MAX_RETRIES)
wait_time(attempt_no) == Pow2(attempt_no + 1)

\* call_attempt with an unparsable payload answered by an empty response
call_attempt_MalformedSwallowed(attempt_no, reply) ==
    IF reply.exc = "AuthenticationError" THEN StepRaise(reply.exc)
    ELSE IF reply.exc = "BadRequestError" THEN StepReturn(ContentFilterResponse)
    ELSE IF reply.exc = "RateLimitError"
        THEN StepRetry(IF attempt_no < MAX_RETRIES - 1
                           THEN <<wait_time(attempt_no)>> ELSE <<>>)
    ELSE IF reply.exc # "none" THEN StepRaise(reply.exc)
    ELSE IF reply.refusal THEN StepReturn(RefusalResponse)
    ELSE IF reply.finish_reason = "length" THEN StepReturn(TruncatedResponse)
    ELSE IF reply.payload # "valid" THEN StepReturn(ReviewResponse(<<>>, Text("")))
    ELSE StepReturn(ReviewResponse(reply.comments, reply.summary))

\* call_attempt with every failure of the attempt answered by an empty response
call_attempt_FailureAsEmpty(attempt_no, reply) ==
    IF reply.exc = "BadRequestError" THEN StepReturn(ContentFilterResponse)
    ELSE IF reply.exc = "RateLimitError"
        THEN StepRetry(IF attempt_no < MAX_RETRIES - 1
                           THEN <<wait_time(attempt_no)>> ELSE <<>>)
    ELSE IF reply.exc # "none" THEN StepReturn(ReviewResponse(<<>>, Text("")))
    ELSE IF reply.refusal THEN StepReturn(RefusalResponse)
    ELSE IF reply.finish_reason = "length" THEN StepReturn(TruncatedResponse)
    ELSE IF reply.payload # "valid" THEN StepReturn(ReviewResponse(<<>>, Text("")))
    ELSE StepReturn(ReviewResponse(reply.comments, reply.summary))

\* call_attempt with a content-filter rejection retried like a rate limit
call_attempt_FilterRetried(attempt_no, reply) ==
    IF reply.exc = "AuthenticationError" THEN StepRaise(reply.exc)
    ELSE IF reply.exc \in {"RateLimitError", "BadRequestError"}
        THEN StepRetry(IF attempt_no < MAX_RETRIES - 1
                           THEN <<wait_time(attempt_no)>> ELSE <<>>)
    ELSE IF reply.exc # "none" THEN StepRaise(reply.exc)
    ELSE IF reply.refusal THEN StepReturn(RefusalResponse)
    ELSE IF reply.finish_reason = "length" THEN StepReturn(TruncatedResponse)
    ELSE IF reply.payload # "valid" THEN StepRaise("ValidationError")
    ELSE StepReturn(ReviewResponse(reply.comments, reply.summary))

\* call_attempt with the backoff sleep taken after the last attempt too
call_attempt_SleepAfterLast(attempt_no, reply) ==
    IF reply.exc = "AuthenticationError" THEN StepRaise(reply.exc)
    ELSE IF reply.exc = "BadRequestError" THEN StepReturn(ContentFilterResponse)
    ELSE IF reply.exc = "RateLimitError"
        THEN StepRetry(IF attempt_no < MAX_RETRIES
                           THEN <<wait_time(attempt_no)>> ELSE <<>>)
    ELSE IF reply.exc # "none" THEN StepRaise(reply.exc)
    ELSE IF reply.refusal THEN StepReturn(RefusalResponse)
    ELSE IF reply.finish_reason = "length" THEN StepReturn(TruncatedResponse)
    ELSE IF reply.payload # "valid" THEN StepRaise("ValidationError")
    ELSE StepReturn(ReviewResponse(reply.comments, reply.summary))

\* call_attempt with an authentication failure retried like a rate limit
call_attempt_AuthRetried(attempt_no, reply) ==
    IF reply.exc = "BadRequestError" THEN StepReturn(ContentFilterResponse)
    ELSE IF reply.exc \in {"RateLimitError", "AuthenticationError"}
        THEN StepRetry(IF attempt_no < MAX_RETRIES - 1
                           THEN <<wait_time(attempt_no)>> ELSE <<>>)
    ELSE IF reply.exc # "none" THEN StepRaise(reply.exc)
    ELSE IF reply.refusal THEN StepReturn(RefusalResponse)
    ELSE IF reply.finish_reason = "length" THEN StepReturn(TruncatedResponse)
    ELSE IF reply.payload # "valid" THEN StepRaise("ValidationError")
    ELSE StepReturn(ReviewResponse(reply.comments, reply.summary))

call_attempt(attempt_no, reply) ==
    IF reply.exc = "AuthenticationError" THEN StepRaise(reply.exc)
    ELSE IF reply.exc = "BadRequestError" THEN StepReturn(ContentFilterResponse)
    ELSE IF reply.exc = "RateLimitError"
        THEN StepRetry(IF attempt_no < MAX_RETRIES - 1
                           THEN <<wait_time(attempt_no)>> ELSE <<>>)
    ELSE IF reply.exc # "none" THEN StepRaise(reply.exc)
    ELSE IF reply.refusal THEN StepReturn(RefusalResponse)
    ELSE IF reply.finish_reason = "length" THEN StepReturn(TruncatedResponse)
    ELSE IF reply.payload # "valid" THEN StepRaise("ValidationError")
    ELSE StepReturn(ReviewResponse(reply.comments, reply.summary))

\* review_files keeping the comments of the last response only
extend_comments_Replace(collected, response) == response.comments

\* review_files: all_comments.extend(response.comments)
extend_comments(collected, response) == collected \o response.comments

\* AIReviewer._mock_response(file_path)
mock_response(file_path) ==
    ReviewResponse(
        <<ReviewComment(file_path, 1, "info", "readability",
                        "Mock review comment for testing.")>>,
        Text("Mock review completed."))

\* mock mode for the sentinel only
IsMockKey_SentinelOnly(key) == key = "mock"

\* AIReviewer.__init__: self._is_mock
IsMockKey(key) == key = "mock" \/ key = ""

(***************************************************************************)
(* review.py: formatting, the summary, and main's branches.                *)
(***************************************************************************)
\* format_comment_body(comment), as the pieces of the f-string
format_comment_body(comment) ==
    <<"**[", comment.severity, "] [", comment.category, "]**: ", comment.comment>>

CountSeverity(comments, severity) ==
    Cardinality({i \in 1..Len(comments) : comments[i].severity = severity})

\* build_summary(comments), as the pieces of the f-string
build_summary(comments) ==
    <<"CodeGuardian Review: Found ", Len(comments), " issues (",
      CountSeverity(comments, "error"), " errors, ",
      CountSeverity(comments, "warning"), " warnings, ",
      CountSeverity(comments, "info"), " info)">>

\* the platform comment dicts main builds from the valid comments
RECURSIVE platform_comments(_)
platform_comments(valid_comments) ==
    IF valid_comments = <<>> THEN <<>>
    ELSE <<[path |-> Head(valid_comments).file_path,
            body |-> format_comment_body(Head(valid_comments)),
            line |-> Head(valid_comments).line_number]>>
         \o platform_comments(Tail(valid_comments))

\* the summary built over everything the model proposed
summarised_comments_Raw(ai_comments, valid_comments) == ai_comments

\* the list main hands to build_summary: `build_summary(valid_comments)`
summarised_comments(ai_comments, valid_comments) == valid_comments

\* {f["filename"]: f["patch"] for f in reviewable}
file_patches_of(files) ==
    [name \in {files[i].filename : i \in 1..Len(files)} |->
        LET last == CHOOSE i \in 1..Len(files) :
                        /\ files[i].filename = name
                        /\ \A j \in 1..Len(files) : files[j].filename = name => j <= i
        IN files[last].patch.value]

\* the texts main posts with post_error_comment
NoReviewableNote ==
    [text |-> "No reviewable files found in this PR/MR.", error |-> ""]
ErrorNote(exc) ==
    [text |-> "CodeGuardian encountered an error: ", error |-> exc]

\* platform.is_fork(): GitHubClient compares the repositories, GitLabClient
\* answers False
is_fork(platform, forked) == IF platform = "github" THEN forked ELSE FALSE

\* the fork check with the warning printed and the exit left out
after_fork_check_NoExit(fork) == "get_files"

\* main after the fork check: sys.exit(0) on a fork, get_files otherwise
after_fork_check(fork) == IF fork THEN "sys_exit_0" ELSE "get_files"

\* the empty-filter check left out
after_filter_NoExit(files) == "construct"

\* main after the filter: the note and sys.exit(0) when nothing is reviewable
after_filter(files) == IF files = <<>> THEN "note_and_exit" ELSE "construct"

\* a handler that lets the authentication failure through
main_catches_ExceptAuth(exc) == exc # "AuthenticationError"

\* main's `except Exception`: every exception of the model is an Exception
main_catches(exc) == TRUE

\* whether post_review_comments reaches the platform at all: GitHubClient
\* returns at once on an empty list, GitLabClient always posts the summary note
post_calls_platform(platform, comments) ==
    platform = "gitlab" \/ comments # <<>>

(***************************************************************************)
(* github_client.py, gitlab_client.py: post_review_comments.               *)
(*                                                                         *)
(* A post is modelled by the calls it makes on the platform library, in    *)
(* order, each with the status the platform answered, and the exception    *)
(* that left it ("" when it returned).  The platform's answers are an      *)
(* input: the status of each batch review, the lines on which it rejects   *)
(* a single inline comment, and whether it accepts the summary note.       *)
(***************************************************************************)
Min(a, b) == IF a <= b THEN a ELSE b

PlatformCall(api, comments, body, status) ==
    [api |-> api, comments |-> comments, body |-> body, status |-> status]

PostResult(calls, exc) == [calls |-> calls, exc |-> exc]

\* the calls of `first`, then the run `rest`
Then(first, rest) == PostResult(first \o rest.calls, rest.exc)

\* [comments[i : i + width] for i in range(start, len(comments), step)]
RECURSIVE chunks_from(_, _, _, _)
chunks_from(comments, i, step, width) ==
    IF i >= Len(comments) THEN <<>>
    ELSE <<SubSeq(comments, i + 1, Min(i + width, Len(comments)))>>
         \o chunks_from(comments, i + step, step, width)

\* chunks that run one comment into the next chunk
chunk_comments_Overlapping(comments, chunk_size) ==
    chunks_from(comments, 0, chunk_size, chunk_size + 1)

\* GitHubClient._chunk_comments(comments, chunk_size)
chunk_comments(comments, chunk_size) ==
    chunks_from(comments, 0, chunk_size, chunk_size)

\* the github_comments list: each comment with side RIGHT
github_comments(comments) ==
    [i \in 1..Len(comments) |->
        [path |-> comments[i].path, body |-> comments[i].body,
         line |-> comments[i].line, side |-> "RIGHT"]]

\* the individual fallback giving up at the first rejected comment
RECURSIVE post_individual_comments_StopAtRejection(_, _)
post_individual_comments_StopAtRejection(comments, rejected) ==
    IF comments = <<>> THEN <<>>
    ELSE IF Head(comments).line \in rejected
        THEN <<PlatformCall("create_review_comment", <<Head(comments)>>,
                            Head(comments).body, 422)>>
    ELSE <<PlatformCall("create_review_comment", <<Head(comments)>>,
                        Head(comments).body, 201)>>
         \o post_individual_comments_StopAtRejection(Tail(comments), rejected)

\* GitHubClient._post_individual_comments: one create_review_comment per
\* comment; a GithubException is logged and the loop goes on
RECURSIVE post_individual_comments(_, _)
post_individual_comments(comments, rejected) ==
    IF comments = <<>> THEN <<>>
    ELSE <<PlatformCall("create_review_comment", <<Head(comments)>>,
                        Head(comments).body,
                        IF Head(comments).line \in rejected THEN 422 ELSE 201)>>
         \o post_individual_comments(Tail(comments), rejected)

\* the chunk loop sending the summary with the first review only
RECURSIVE post_chunks_SummaryOnce(_, _, _, _)
post_chunks_SummaryOnce(chunks, k, summary, answers) ==
    IF k > Len(chunks) THEN PostResult(<<>>, "")
    ELSE LET status == answers.batch[k]
             call == PlatformCall("create_review", chunks[k],
                                  IF k = 1 THEN summary ELSE <<>>, status)
         IN IF status = 200
              THEN Then(<<call>>, post_chunks_SummaryOnce(chunks, k + 1, summary, answers))
            ELSE IF status = 422
              THEN Then(<<call>>
                          \o post_individual_comments(chunks[k], answers.rejected),
                        post_chunks_SummaryOnce(chunks, k + 1, summary, answers))
            ELSE PostResult(<<call>>, "GithubException")

\* the chunk loop going on to the next chunk after any rejected review
RECURSIVE post_chunks_ContinueAfterError(_, _, _, _)
post_chunks_ContinueAfterError(chunks, k, summary, answers) ==
    IF k > Len(chunks) THEN PostResult(<<>>, "")
    ELSE LET status == answers.batch[k]
             call == PlatformCall("create_review", chunks[k], summary, status)
         IN IF status = 422
              THEN Then(<<call>>
                          \o post_individual_comments(chunks[k], answers.rejected),
                        post_chunks_ContinueAfterError(chunks, k + 1, summary, answers))
            ELSE Then(<<call>>,
                      post_chunks_ContinueAfterError(chunks, k + 1, summary, answers))

\* the `for chunk in chunks` loop of GitHubClient.post_review_comments, from
\* chunk k on
RECURSIVE post_chunks(_, _, _, _)
post_chunks(chunks, k, summary, answers) ==
    IF k > Len(chunks) THEN PostResult(<<>>, "")
    ELSE LET status == answers.batch[k]
             call == PlatformCall("create_review", chunks[k], summary, status)
         IN IF status = 200
              THEN Then(<<call>>, post_chunks(chunks, k + 1, summary, answers))
            ELSE IF status = 422
              THEN Then(<<call>>
                          \o post_individual_comments(chunks[k], answers.rejected),
                        post_chunks(chunks, k + 1, summary, answers))
            ELSE PostResult(<<call>>, "GithubException")

\* GitHubClient.post_review_comments(comments, summary)
github_post_review_comments(comments, summary, answers) ==
    IF ~post_calls_platform("github", comments) THEN PostResult(<<>>, "")
    ELSE post_chunks(chunk_comments(github_comments(comments),
                                    REVIEW_COMMENT_CHUNK_SIZE),
                     1, summary, answers)

\* the discussion loop giving up at the first rejected comment
RECURSIVE gitlab_discussions_StopAtRejection(_, _)
gitlab_discussions_StopAtRejection(comments, rejected) ==
    IF comments = <<>> THEN <<>>
    ELSE IF Head(comments).line \in rejected
        THEN <<PlatformCall("discussions.create", <<Head(comments)>>,
                            Head(comments).body, 400)>>
    ELSE <<PlatformCall("discussions.create", <<Head(comments)>>,
                        Head(comments).body, 201)>>
         \o gitlab_discussions_StopAtRejection(Tail(comments), rejected)

\* the `for comment in comments` loop of GitLabClient.post_review_comments:
\* a GitlabCreateError is logged and the loop goes on
RECURSIVE gitlab_discussions(_, _)
gitlab_discussions(comments, rejected) ==
    IF comments = <<>> THEN <<>>
    ELSE <<PlatformCall("discussions.create", <<Head(comments)>>,
                        Head(comments).body,
                        IF Head(comments).line \in rejected THEN 400 ELSE 201)>>
         \o gitlab_discussions(Tail(comments), rejected)

\* GitLabClient.post_review_comments(comments, summary)
gitlab_post_review_comments(comments, summary, answers) ==
    Then(gitlab_discussions(comments, answers.rejected),
         IF answers.note_ok
           THEN PostResult(<<PlatformCall("notes.create", <<>>, summary, 201)>>, "")
           ELSE PostResult(<<PlatformCall("notes.create", <<>>, summary, 500)>>,
                           "GitlabError"))

\* platform.post_review_comments(comments, summary)
post_review_comments(platform, comments, summary, answers) ==
    IF platform = "github"
      THEN github_post_review_comments(comments, summary, answers)
      ELSE gitlab_post_review_comments(comments, summary, answers)

\* what the platform may answer to a post of `nchunks` batches whose comments
\* are on `lines`
BatchStatuses == {200, 422, 500}

PostAnswers(platform, nchunks, lines) ==
    IF platform = "github"
      THEN {[batch |-> b, rejected |-> r, note_ok |-> TRUE] :
                b \in [1..nchunks -> BatchStatuses], r \in SUBSET lines}
      ELSE {[batch |-> <<>>, rejected |-> r, note_ok |-> n] :
                r \in SUBSET lines, n \in BOOLEAN}

\* GitHubClient / GitLabClient.get_file_content, for what the platform's
\* fetch does: "text" and "blank" are contents, "not_found" the not-found
\* exception (UnknownObjectException, GitlabGetError), "error" any other
\* exception.  GitLabClient catches every exception, GitHubClient the
\* not-found one only.
FetchOutcomes == {"text", "blank", "not_found", "error"}

get_file_content(platform, outcome) ==
    IF outcome = "text" THEN [exc |-> "", content |-> Some("# Project")]
    ELSE IF outcome = "blank" THEN [exc |-> "", content |-> Some("")]
    ELSE IF outcome = "not_found" THEN [exc |-> "", content |-> None]
    ELSE IF platform = "gitlab" THEN [exc |-> "", content |-> None]
    ELSE [exc |-> "Exception", content |-> None]

\* _fetch_project_context, given what get_file_content returned ("blank" is a
\* content whose strip() is empty)
fetch_project_context(content) ==
    IF ~content.is_none /\ content.value # "" THEN content.value ELSE ""

\* the files of the model's pull requests (PlatformFile, as the file dicts
\* main builds from them)
PRFilePool ==
    { FileDict(main_py, Some(PatchA), 2, 1),
      FileDict(app_ts, Some(PatchB), 2, 0),
      FileDict(removed_py, Some(PatchDel), 0, 2),
      FileDict(logo_png, None, 0, 0),
      FileDict(README_md, Some(PatchB), 2, 0) }

\* file lists without a repeated file name
PRFileLists ==
    {fs \in SeqUpTo(PRFilePool, MaxPRFiles) :
        \A i, j \in 1..Len(fs) : i # j => fs[i].filename # fs[j].filename}

\* the variables of a specification that is not the one running
ParseIdle ==
    patch = <<>> /\ parse_pc = "idle" /\ current_new_line = 0 /\ result = <<>>
FilterIdle ==
    in_files = <<>> /\ filter_pc = "idle" /\ out_files = <<>>
ValidateIdle ==
    /\ in_comments = <<>> /\ in_patches = <<>>
    /\ validate_pc = "idle" /\ out_comments = <<>>

RunIdle ==
    /\ env_platform = "none" /\ from_fork = FALSE /\ api_key = "" /\ pr_files = <<>>
    /\ long_replies = FALSE
    /\ pc = "idle" /\ project_context = "" /\ is_fork_result = "not_called"
    /\ reviewable = <<>> /\ is_mock = FALSE /\ error = ""
    /\ exit_status = "running" /\ propagated = ""
    /\ file_idx = 0 /\ all_comments = <<>> /\ call_pc = "idle" /\ attempt = 0
    /\ last_response = None
    /\ io_log = <<>> /\ reviewed = <<>> /\ outcomes = <<>> /\ get_files_calls = 0
    /\ reviewer_ctor_calls = 0 /\ review_posts = <<>> /\ error_notes = <<>>
    /\ raised_at = <<>>

SummaryIdle == summary_in = <<>> /\ summary_pc = "idle" /\ summary_out = <<>>

NoPostAnswers == [batch |-> <<>>, rejected |-> {}, note_ok |-> TRUE]
NoPostResult == [calls |-> <<>>, exc |-> ""]

PostIdle ==
    /\ post_platform = "none" /\ post_in = <<>> /\ post_answers = NoPostAnswers
    /\ post_pc = "idle" /\ post_out = NoPostResult

(***************************************************************************)
(* SpecParse: parse_patch run one raw line at a time.  The text is read    *)
(* as the loop goes: `patch` holds the raw lines consumed so far, and the  *)
(* text ends where ParseReturn fires.                                      *)
(***************************************************************************)
ParseInit ==
    /\ patch = <<>>
    /\ parse_pc = "start"
    /\ current_new_line = 0
    /\ result = <<>>
    /\ FilterIdle
    /\ ValidateIdle
    /\ RunIdle
    /\ SummaryIdle /\ PostIdle

\* `if not patch: return []`
ParseEmpty ==
    /\ parse_pc = "start"
    /\ parse_pc' = "returned"
    /\ UNCHANGED <<patch, current_new_line, result>>
    /\ UNCHANGED <<filterVars, validateVars, runVars, utilVars>>

\* one iteration of `for raw_line in patch.split("\n")`
ParseRawLine ==
    /\ parse_pc \in {"start", "loop"}
    /\ Len(patch) < MaxPatchLen
    /\ \E raw_line \in RawLines :
         LET st == parse_line([result |-> result,
                               current_new_line |-> current_new_line], raw_line)
         IN /\ patch' = Append(patch, raw_line)
            /\ result' = st.result
            /\ current_new_line' = st.current_new_line
    /\ parse_pc' = "loop"
    /\ UNCHANGED <<filterVars, validateVars, runVars, utilVars>>

\* the loop ran out of lines: `return result`
ParseReturn ==
    /\ parse_pc = "loop"
    /\ parse_pc' = "returned"
    /\ UNCHANGED <<patch, current_new_line, result>>
    /\ UNCHANGED <<filterVars, validateVars, runVars, utilVars>>

vars == <<parseVars, filterVars, validateVars, runVars, utilVars>>

ParseNext == ParseEmpty \/ ParseRawLine \/ ParseReturn

SpecParse == ParseInit /\ [][ParseNext]_vars

(***************************************************************************)
(* Properties of parse_patch (SpecParse).                                  *)
(***************************************************************************)
\* a raw line that is emitted as a DiffLine: an addition or a context line
Emits(raw_line) == raw_line.prefix \in {"+", " "}

\* the number of emitted raw lines among p[a..b]
EmittedIn(p, a, b) == Cardinality({i \in a..b : Emits(p[i])})

\* the index of the last hunk header among p[1..j-1], 0 when there is none
LastHeaderBefore(p, j) ==
    LET hs == {h \in 1..(j - 1) : p[h].prefix = "@@"}
    IN IF hs = {} THEN 0 ELSE CHOOSE h \in hs : \A g \in hs : g <= h

\* C3: a hunk header resets the counter to its new-start; every emitted line
\* (addition or context) of a hunk takes the counter and advances it by one,
\* deletions change nothing: the k-th emitted line after a header carries
\* newStart + (k - 1), in input order, whatever the hunks before it were.
C3_HunkLineNumbers ==
    /\ Len(result) = EmittedIn(patch, 1, Len(patch))
    /\ \A j \in 1..Len(patch) :
         LET h == LastHeaderBefore(patch, j)
         IN (Emits(patch[j]) /\ h # 0) =>
              result[EmittedIn(patch, 1, j)].line_number
                  = patch[h].newStart + EmittedIn(patch, h + 1, j - 1)
    /\ LET h == LastHeaderBefore(patch, Len(patch) + 1)
       IN h # 0 =>
            current_new_line = patch[h].newStart + EmittedIn(patch, h + 1, Len(patch))

\* two emitted lines around a deletion in the first hunk, then a second header
C3_Witness ==
    /\ parse_pc = "returned"
    /\ patch = <<Hdr(10), Add, Del, Ctx, Hdr(1)>>
    /\ Len(result) = 2
    /\ result[1].line_number = 10 /\ result[2].line_number = 11
    /\ current_new_line = 1

\* C4: no emitted DiffLine is a deletion, each is exactly one of addition and
\* context, and a patch whose body lines (the lines that are not hunk headers)
\* are all deletions parses to the empty sequence.
C4_DeletionInvisible ==
    /\ \A i \in 1..Len(result) :
         /\ ~result[i].is_deletion
         /\ result[i].is_addition # result[i].is_context
    /\ (parse_pc = "returned"
          /\ \A j \in 1..Len(patch) : patch[j].prefix \in {"@@", "-"})
        => result = <<>>

\* a returned parse of a hunk that holds deletions only
C4_Witness ==
    /\ parse_pc = "returned"
    /\ patch = <<Hdr(1), Del, Del, Del>>
    /\ result = <<>>

(***************************************************************************)
(* SpecFilter: filter_reviewable_files applied to a drawn file list.       *)
(***************************************************************************)
FilterInit ==
    /\ in_files \in SeqUpTo(FilterPool, MaxFilterFiles)
    /\ filter_pc = "call"
    /\ out_files = <<>>
    /\ ParseIdle
    /\ ValidateIdle
    /\ RunIdle
    /\ SummaryIdle /\ PostIdle

ApplyFilter ==
    /\ filter_pc = "call"
    /\ out_files' = filter_reviewable_files(in_files)
    /\ filter_pc' = "returned"
    /\ UNCHANGED <<in_files, parseVars, validateVars, runVars, utilVars>>

FilterNext == ApplyFilter

SpecFilter == FilterInit /\ [][FilterNext]_vars

\* the claim's own reading of "reviewable": a patch, additions other than 0,
\* and the text from the last "." on in the allow-list
ReviewableByClaim(file) ==
    /\ ~file.patch.is_none
    /\ file.additions # 0
    /\ \E i \in 1..Len(file.filename) :
         /\ file.filename[i] = "."
         /\ \A j \in (i + 1)..Len(file.filename) : file.filename[j] # "."
         /\ SubSeq(file.filename, i, Len(file.filename))
              \in {<<".", "p", "y">>, <<".", "j", "s">>, <<".", "t", "s">>,
                   <<".", "h", "t", "m", "l">>}

\* C2: filter_reviewable_files returns exactly the input files, in input
\* order, that have a patch, additions other than 0 and an allow-listed
\* extension after the last "."; every other file is excluded.
C2_FilterExact ==
    filter_pc = "returned" => out_files = SelectSeq(in_files, ReviewableByClaim)

\* a binary file and a delete-only file around main.py
C2_Witness ==
    /\ filter_pc = "returned"
    /\ in_files = <<FileDict(logo_png, None, 0, 0),
                    FileDict(main_py, Some(PatchA), 2, 1),
                    FileDict(removed_py, Some(PatchDel), 0, 2)>>
    /\ out_files = <<FileDict(main_py, Some(PatchA), 2, 1)>>

(***************************************************************************)
(* SpecValidate: validate_comment_lines applied to drawn comments and a    *)
(* drawn file_patches mapping.                                             *)
(***************************************************************************)
\* comments the model backend may propose: on a file of the change or not,
\* on a line of the diff or not
CommentPaths == {main_py, app_ts, ghost_py}
CommentLines == {1, 11, 999}
ValidatePool ==
    {ReviewComment(f, n, "warning", "bug", "c") : f \in CommentPaths, n \in CommentLines}

\* file_patches: a dict from some of the paths to patch texts
PatchedPaths == {main_py, app_ts}
PatchTexts == {PatchA, PatchB, PatchDel, PatchNone}
PatchDicts == UNION {[S -> PatchTexts] : S \in SUBSET PatchedPaths}

ValidateInit ==
    /\ in_comments \in SeqUpTo(ValidatePool, MaxComments)
    /\ in_patches \in PatchDicts
    /\ validate_pc = "call"
    /\ out_comments = <<>>
    /\ ParseIdle
    /\ FilterIdle
    /\ RunIdle
    /\ SummaryIdle /\ PostIdle

ApplyValidate ==
    /\ validate_pc = "call"
    /\ out_comments' = validate_comment_lines(in_comments, in_patches)
    /\ validate_pc' = "returned"
    /\ UNCHANGED <<in_comments, in_patches, parseVars, filterVars, runVars,
                   utilVars>>

ValidateNext == ApplyValidate

SpecValidate == ValidateInit /\ [][ValidateNext]_vars

\* the comment's path has a patch in the mapping and its line is the line
\* number of some DiffLine that parse_patch emits for that patch
OnParsedLine(comment) ==
    /\ comment.file_path \in DOMAIN in_patches
    /\ LET diff_lines == parse_patch(in_patches[comment.file_path])
       IN \E i \in 1..Len(diff_lines) : diff_lines[i].line_number = comment.line_number

\* C1: validate_comment_lines returns exactly the subsequence of its input,
\* in input order, of the comments whose path has a patch in the mapping and
\* whose line is among the line numbers parse_patch yields for that patch.
C1_ValidateExact ==
    validate_pc = "returned" => out_comments = SelectSeq(in_comments, OnParsedLine)

\* a kept comment between a comment on a line outside the diff and a comment
\* on a file without a patch
C1_Witness ==
    /\ validate_pc = "returned"
    /\ in_patches = (main_py :> PatchA)
    /\ in_comments = <<ReviewComment(main_py, 999, "warning", "bug", "c"),
                       ReviewComment(main_py, 11, "warning", "bug", "c"),
                       ReviewComment(app_ts, 11, "warning", "bug", "c")>>
    /\ out_comments = <<ReviewComment(main_py, 11, "warning", "bug", "c")>>

(***************************************************************************)
(* Spec: one run of main.                                                  *)
(*                                                                         *)
(* The environment is drawn in Init: the platform create_platform detects, *)
(* whether the change comes from a fork, OPENAI_API_KEY, and the files     *)
(* get_files returns.  What the backend and the platform answer is drawn   *)
(* at each call.                                                           *)
(***************************************************************************)
\* main about to run
MainStart ==
    /\ pc = "create_platform" /\ project_context = "" /\ is_fork_result = "not_called"
    /\ reviewable = <<>> /\ is_mock = FALSE /\ error = ""
    /\ exit_status = "running" /\ propagated = ""
    /\ file_idx = 0 /\ all_comments = <<>> /\ call_pc = "idle" /\ attempt = 0
    /\ last_response = None
    /\ io_log = <<>> /\ reviewed = <<>> /\ outcomes = <<>> /\ get_files_calls = 0
    /\ reviewer_ctor_calls = 0 /\ review_posts = <<>> /\ error_notes = <<>>
    /\ raised_at = <<>>
    /\ ParseIdle /\ FilterIdle /\ ValidateIdle /\ SummaryIdle /\ PostIdle

Init ==
    /\ env_platform \in {"github", "gitlab", "none"}
    /\ from_fork \in BOOLEAN
    /\ api_key \in {"", "mock", "sk"}
    /\ pr_files \in PRFileLists
    /\ long_replies = FALSE
    /\ MainStart

otherVars == <<parseVars, filterVars, validateVars, envVars, utilVars>>

\* an exception leaves main: the process ends with a traceback
Propagate(exc) ==
    /\ pc' = "done"
    /\ exit_status' = "raised"
    /\ propagated' = exc

\* an exception raised inside main's try block
RaiseInTry(step, exc) ==
    /\ raised_at' = Append(raised_at, [step |-> step, exc |-> exc])
    /\ error' = exc
    /\ IF main_catches(exc)
          THEN pc' = "except" /\ UNCHANGED <<exit_status, propagated>>
          ELSE Propagate(exc)

\* create_platform(): a client, or sys.exit(1) when no platform is detected
CreatePlatform ==
    /\ pc = "create_platform"
    /\ IF env_platform = "none"
          THEN pc' = "done" /\ exit_status' = "sys_exit_1"
          ELSE pc' = "fetch_context" /\ UNCHANGED exit_status
    /\ UNCHANGED <<project_context, is_fork_result, reviewable, is_mock, error,
                   propagated, reviewVars, logVars, otherVars>>

\* platform.get_context() and _fetch_project_context(platform)
FetchContext ==
    /\ pc = "fetch_context"
    /\ \E outcome \in FetchOutcomes :
         LET got == get_file_content(env_platform, outcome)
         IN IF got.exc # ""
              THEN Propagate(got.exc) /\ UNCHANGED project_context
              ELSE /\ project_context' = fetch_project_context(got.content)
                   /\ pc' = "fork_check"
                   /\ UNCHANGED <<exit_status, propagated>>
    /\ UNCHANGED <<is_fork_result, reviewable, is_mock, error, reviewVars, logVars,
                   otherVars>>

\* `if platform.is_fork(): sys.exit(0)`
ForkCheck ==
    /\ pc = "fork_check"
    /\ LET fork == is_fork(env_platform, from_fork)
       IN /\ is_fork_result' = IF fork THEN "True" ELSE "False"
          /\ IF after_fork_check(fork) = "sys_exit_0"
                THEN pc' = "done" /\ exit_status' = "sys_exit_0"
                ELSE pc' = "get_files" /\ UNCHANGED exit_status
    /\ UNCHANGED <<project_context, reviewable, is_mock, error, propagated,
                   reviewVars, logVars, otherVars>>

\* get_files, the filter, and the no-reviewable-files exit
GetFiles ==
    /\ pc = "get_files"
    /\ get_files_calls' = get_files_calls + 1
    /\ reviewable' = filter_reviewable_files(pr_files)
    /\ IF after_filter(reviewable') = "note_and_exit"
          THEN /\ error_notes' = Append(error_notes, NoReviewableNote)
               /\ \E ok \in BOOLEAN :
                    IF ok
                      THEN /\ pc' = "done" /\ exit_status' = "sys_exit_0"
                           /\ UNCHANGED <<propagated, raised_at>>
                      ELSE /\ Propagate("PlatformError")
                           /\ raised_at' = Append(raised_at,
                                  [step |-> "note", exc |-> "PlatformError"])
          ELSE /\ pc' = "construct"
               /\ UNCHANGED <<exit_status, propagated, error_notes, raised_at>>
    /\ UNCHANGED <<project_context, is_fork_result, is_mock, error, reviewVars,
                   io_log, reviewed, outcomes, reviewer_ctor_calls, review_posts,
                   otherVars>>

\* AIReviewer(api_key=..., project_context=...): the OpenAI client is built
\* unless the key is the mock one, and building it may raise
ConstructReviewer ==
    /\ pc = "construct"
    /\ reviewer_ctor_calls' = reviewer_ctor_calls + 1
    /\ is_mock' = IsMockKey(api_key)
    /\ \E ok \in (IF IsMockKey(api_key) THEN {TRUE} ELSE BOOLEAN) :
         IF ok
           THEN /\ pc' = "review" /\ file_idx' = 1
                /\ UNCHANGED <<exit_status, propagated, raised_at>>
           ELSE /\ Propagate("OpenAIError")
                /\ raised_at' = Append(raised_at,
                       [step |-> "construct", exc |-> "OpenAIError"])
                /\ UNCHANGED file_idx
    /\ UNCHANGED <<project_context, is_fork_result, reviewable, error, all_comments,
                   call_pc, attempt, last_response, io_log, reviewed, outcomes,
                   get_files_calls, review_posts, error_notes, otherVars>>

CallEvent(reply) == [ev |-> "call", reply |-> reply, wait |-> 0]
SleepEvent(wait) == [ev |-> "sleep", reply |-> NoReply, wait |-> wait]

RECURSIVE SleepEvents(_)
SleepEvents(sleeps) ==
    IF sleeps = <<>> THEN <<>>
    ELSE <<SleepEvent(Head(sleeps))>> \o SleepEvents(Tail(sleeps))

\* review_files, one file in mock mode: review_diff returns _mock_response
ReviewMock ==
    /\ pc = "review" /\ file_idx <= Len(reviewable) /\ is_mock
    /\ LET file_path == reviewable[file_idx].filename
           response == mock_response(file_path)
       IN /\ reviewed' = Append(reviewed, file_path)
          /\ last_response' = Some(response)
          /\ outcomes' = Append(outcomes, response)
          /\ all_comments' = extend_comments(all_comments, response)
    /\ file_idx' = file_idx + 1
    /\ call_pc' = "returned"
    /\ io_log' = <<>>
    /\ attempt' = 0
    /\ UNCHANGED <<mainVars, get_files_calls, reviewer_ctor_calls, review_posts,
                   error_notes, raised_at, otherVars>>

\* review_files, one iteration of _call_openai's loop for the file under
\* review: the backend call, the handling of its reply, the backoff sleep;
\* on the call's return, review_files extends all_comments and moves on
Attempt ==
    /\ pc = "review" /\ file_idx <= Len(reviewable) /\ ~is_mock
    /\ LET file_path == reviewable[file_idx].filename
           starting == call_pc # "loop"
           a == IF starting THEN 0 ELSE attempt
           log0 == IF starting THEN <<>> ELSE io_log
       IN \E reply \in BackendReplies(file_path) :
            LET step == call_attempt(a, reply)
                exhausted == step.next = "retry" /\ a + 1 >= MAX_RETRIES
                response == IF exhausted THEN RateLimitResponse ELSE step.response
            IN /\ io_log' = Append(log0, CallEvent(reply)) \o SleepEvents(step.sleeps)
               /\ reviewed' = IF starting THEN Append(reviewed, file_path) ELSE reviewed
               /\ IF step.next = "raise"
                     THEN /\ call_pc' = "raised"
                          /\ attempt' = a
                          /\ last_response' = None
                          /\ RaiseInTry("review", step.exc)
                          /\ UNCHANGED <<file_idx, all_comments, outcomes>>
                     ELSE IF step.next = "retry" /\ ~exhausted
                     THEN /\ call_pc' = "loop"
                          /\ attempt' = a + 1
                          /\ last_response' = None
                          /\ UNCHANGED <<file_idx, all_comments, outcomes, pc, error,
                                         exit_status, propagated, raised_at>>
                     ELSE /\ call_pc' = "returned"
                          /\ attempt' = a
                          /\ last_response' = Some(response)
                          /\ outcomes' = Append(outcomes, response)
                          /\ all_comments' = extend_comments(all_comments, response)
                          /\ file_idx' = file_idx + 1
                          /\ UNCHANGED <<pc, error, exit_status, propagated, raised_at>>
    /\ UNCHANGED <<project_context, is_fork_result, reviewable, is_mock,
                   get_files_calls, reviewer_ctor_calls, review_posts, error_notes,
                   otherVars>>

\* the lines on which the platform may reject an inline comment of the run
MainRejectLines == {1, 11}

\* after review_files: the patches map, validation, formatting, the summary
\* and post_review_comments
ValidateAndPost ==
    /\ pc = "review" /\ file_idx > Len(reviewable)
    /\ LET file_patches == file_patches_of(reviewable)
           valid_comments == validate_comment_lines(all_comments, file_patches)
           comments == platform_comments(valid_comments)
           summary == build_summary(summarised_comments(all_comments, valid_comments))
           nchunks == Len(chunk_comments(comments, REVIEW_COMMENT_CHUNK_SIZE))
       IN \E answers \in PostAnswers(env_platform, nchunks, MainRejectLines) :
            LET run == post_review_comments(env_platform, comments, summary, answers)
            IN /\ review_posts' = Append(review_posts,
                      [comments |-> comments, summary |-> summary,
                       ok |-> run.exc = "", calls |-> run.calls])
               /\ IF run.exc = ""
                     THEN /\ pc' = "done" /\ exit_status' = "returned"
                          /\ UNCHANGED <<error, propagated, raised_at>>
                     ELSE RaiseInTry("post", run.exc)
    /\ UNCHANGED <<project_context, is_fork_result, reviewable, is_mock, reviewVars,
                   io_log, reviewed, outcomes, get_files_calls, reviewer_ctor_calls,
                   error_notes, otherVars>>

\* `except Exception as error: platform.post_error_comment(...)`
HandleError ==
    /\ pc = "except"
    /\ error_notes' = Append(error_notes, ErrorNote(error))
    /\ \E ok \in BOOLEAN :
         IF ok
           THEN /\ pc' = "done" /\ exit_status' = "returned"
                /\ UNCHANGED <<propagated, raised_at>>
           ELSE /\ Propagate("PlatformError")
                /\ raised_at' = Append(raised_at,
                       [step |-> "error_note", exc |-> "PlatformError"])
    /\ UNCHANGED <<project_context, is_fork_result, reviewable, is_mock, error,
                   reviewVars, io_log, reviewed, outcomes, get_files_calls,
                   reviewer_ctor_calls, review_posts, otherVars>>

Next ==
    \/ CreatePlatform
    \/ FetchContext
    \/ ForkCheck
    \/ GetFiles
    \/ ConstructReviewer
    \/ ReviewMock
    \/ Attempt
    \/ ValidateAndPost
    \/ HandleError

Spec == Init /\ [][Next]_vars

(***************************************************************************)
(* SpecLong: runs of main on GitHub over at most one file, in which the    *)
(* backend may also answer with a comment list longer than one batch       *)
(* review, so that post_review_comments has several chunks to submit.      *)
(***************************************************************************)
LongInit ==
    /\ env_platform = "github"
    /\ from_fork \in BOOLEAN
    /\ api_key \in {"mock", "sk"}
    /\ pr_files \in {fs \in PRFileLists : Len(fs) <= 1}
    /\ long_replies = TRUE
    /\ MainStart

SpecLong == LongInit /\ [][Next]_vars

(***************************************************************************)
(* Properties of _call_openai (Spec).                                      *)
(***************************************************************************)
\* positions of the backend calls in the current review_diff's log
CallsAt == {i \in 1..Len(io_log) : io_log[i].ev = "call"}
SleepsAt == {i \in 1..Len(io_log) : io_log[i].ev = "sleep"}

\* the current review_diff has returned and every backend call of it was
\* answered with a rate-limit rejection
RateLimitedThroughout ==
    /\ call_pc = "returned"
    /\ CallsAt # {}
    /\ \A i \in CallsAt : io_log[i].reply.exc = "RateLimitError"

\* C5: under a persistent rate limit _call_openai makes exactly 3
\* (MAX_RETRIES) backend calls and exactly 2 sleeps, each sleep between two
\* calls and none after the last call, and returns a response with no
\* comments and the rate-limit summary instead of raising.
C5_RateLimitRetryBound ==
    RateLimitedThroughout =>
        /\ Cardinality(CallsAt) = 3
        /\ Cardinality(SleepsAt) = 2
        /\ CallsAt = {1, 3, 5} /\ SleepsAt = {2, 4}
        /\ ~last_response.is_none
        /\ last_response.value.comments = <<>>
        /\ last_response.value.summary
             = <<"Error: Rate limit exceeded after ", 3, " retries.">>

C5_Witness ==
    /\ RateLimitedThroughout
    /\ Len(io_log) = 5
    /\ pc = "review"

\* C6: an authentication failure ends _call_openai on the attempt where it
\* occurs: it is the last event of the call's log (no sleep, no further
\* backend call), the call has raised it to review_diff's caller, and no
\* ReviewResponse was returned.
C6_AuthRaisedAtOnce ==
    \A i \in CallsAt :
        io_log[i].reply.exc = "AuthenticationError" =>
            /\ i = Len(io_log)
            /\ call_pc = "raised"
            /\ error = "AuthenticationError"
            /\ last_response.is_none
            /\ raised_at # <<>>
            /\ raised_at[1] = [step |-> "review", exc |-> "AuthenticationError"]

\* an authentication failure on the second attempt, after one rate limit
C6_Witness ==
    /\ Len(io_log) = 3
    /\ io_log[1].reply.exc = "RateLimitError"
    /\ io_log[2].ev = "sleep"
    /\ io_log[3].reply.exc = "AuthenticationError"
    /\ call_pc = "raised"

(***************************************************************************)
(* Properties of main (Spec).                                              *)
(***************************************************************************)
\* a backend call of this run was answered with an authentication failure
AuthFailed == \E i \in CallsAt : io_log[i].reply.exc = "AuthenticationError"

\* C7 as the specification states it: an authentication failure propagates
\* out of main and no post_error_comment call is made for it.
C7_AuthPropagates ==
    (pc = "done" /\ AuthFailed) =>
        /\ exit_status = "raised"
        /\ propagated = "AuthenticationError"
        /\ error_notes = <<>>

\* C7, amended: an authentication failure stops the review (no further
\* backend call, no post_review_comments) and is caught by main's handler,
\* which makes exactly one post_error_comment call carrying it; the
\* authentication failure itself never leaves main (main returns, or the
\* failure of that post_error_comment call propagates).
C7_AuthCaughtAndPosted ==
    AuthFailed =>
        /\ pc \in {"except", "done"}
        /\ io_log[Len(io_log)].reply.exc = "AuthenticationError"
        /\ review_posts = <<>>
        /\ propagated # "AuthenticationError"
        /\ pc = "except" => error_notes = <<>>
        /\ pc = "done" =>
             /\ error_notes = <<ErrorNote("AuthenticationError")>>
             /\ \/ exit_status = "returned" /\ propagated = ""
                \/ exit_status = "raised" /\ propagated = "PlatformError"

\* a run that ended normally after an authentication failure on its second file
C7_Witness ==
    /\ pc = "done" /\ AuthFailed
    /\ file_idx = 2
    /\ exit_status = "returned"
    /\ Len(error_notes) = 1

\* C8: when is_fork() answers True, main exits with code 0 and has made no
\* get_files call, no reviewer construction or call, and no
\* post_review_comments or post_error_comment call.
C8_ForkExitsSilently ==
    is_fork_result = "True" =>
        /\ pc = "done"
        /\ exit_status = "sys_exit_0"
        /\ get_files_calls = 0
        /\ reviewer_ctor_calls = 0
        /\ reviewed = <<>> /\ io_log = <<>>
        /\ review_posts = <<>>
        /\ error_notes = <<>>

\* a fork with a real key and reviewable files
C8_Witness ==
    /\ is_fork_result = "True"
    /\ api_key = "sk"
    /\ filter_reviewable_files(pr_files) # <<>>
    /\ pc = "done"

\* the run fetched the files and the filter left none
EmptyFilterRun == pc = "done" /\ get_files_calls = 1 /\ reviewable = <<>>

C10_AnyExceptionPosted ==
    (pc = "done" /\ raised_at # <<>>
       /\ raised_at[1].step \in {"construct", "review", "post"}) =>
        /\ Len(error_notes) = 1
        /\ exit_status = "returned"

(***************************************************************************)
(* SpecSummary: build_summary applied to a drawn list of comments.         *)
(***************************************************************************)
\* the values of ReviewComment.severity (a Literal of three strings)
Severities == {"error", "warning", "info"}

SummaryInputs ==
    UNION {[1..n -> {ReviewComment(main_py, 11, sev, "bug", "c") : sev \in Severities}] :
              n \in 0..MaxSummaryComments}

SummaryInit ==
    /\ summary_in \in SummaryInputs
    /\ summary_pc = "call"
    /\ summary_out = <<>>
    /\ ParseIdle /\ FilterIdle /\ ValidateIdle /\ RunIdle /\ PostIdle

ApplySummary ==
    /\ summary_pc = "call"
    /\ summary_out' = build_summary(summary_in)
    /\ summary_pc' = "returned"
    /\ UNCHANGED <<summary_in, parseVars, filterVars, validateVars, runVars, postVars>>

SummaryNext == ApplySummary

SpecSummary == SummaryInit /\ [][SummaryNext]_vars

(***************************************************************************)
(* SpecPost: post_review_comments of either client applied to a drawn      *)
(* comment list, under drawn platform answers.                             *)
(***************************************************************************)
\* n comments, the i-th on line i
PostComments(n) ==
    [i \in 1..n |->
        [path |-> main_py,
         body |-> format_comment_body(ReviewComment(main_py, i, "info", "bug", "c")),
         line |-> i]]

PostSummary == build_summary(<<>>)

\* the number of batches the longest drawn list is split into
MaxChunks ==
    (MaxPostComments + REVIEW_COMMENT_CHUNK_SIZE - 1) \div REVIEW_COMMENT_CHUNK_SIZE

\* the lines on which the platform may reject a single inline comment: the
\* first comment, and the two on either side of the first chunk boundary
PostRejectLines == {1, REVIEW_COMMENT_CHUNK_SIZE, REVIEW_COMMENT_CHUNK_SIZE + 1}

PostInit ==
    /\ post_platform \in {"github", "gitlab"}
    /\ post_in \in {PostComments(n) : n \in 0..MaxPostComments}
    /\ post_answers \in PostAnswers(post_platform, MaxChunks, PostRejectLines)
    /\ post_pc = "call"
    /\ post_out = NoPostResult
    /\ ParseIdle /\ FilterIdle /\ ValidateIdle /\ RunIdle /\ SummaryIdle

ApplyPost ==
    /\ post_pc = "call"
    /\ post_out' = post_review_comments(post_platform, post_in, PostSummary,
                                        post_answers)
    /\ post_pc' = IF post_out'.exc = "" THEN "returned" ELSE "raised"
    /\ UNCHANGED <<post_platform, post_in, post_answers, parseVars, filterVars,
                   validateVars, runVars, summaryVars>>

PostNext == ApplyPost

SpecPost == PostInit /\ [][PostNext]_vars

(***************************************************************************)
(* Properties of main and of the platform clients' posts.                  *)
(***************************************************************************)
\* a call of the run's post_review_comments that the platform accepted
DeliveredCalls ==
    {c \in UNION {{p.calls[i] : i \in 1..Len(p.calls)} :
                     p \in {review_posts[j] : j \in 1..Len(review_posts)}} :
        c.status \in {200, 201}}

\* main ended by returning or by sys.exit(0), after a fork check that said no
EndedNormallyNoFork ==
    /\ pc = "done"
    /\ is_fork_result = "False"
    /\ exit_status \in {"returned", "sys_exit_0"}

\* the platform accepted every call the run's post_review_comments made
NothingRejected ==
    \A j \in 1..Len(review_posts) :
        \A i \in 1..Len(review_posts[j].calls) :
            review_posts[j].calls[i].status \in {200, 201}

\* C11: a run of main that detected a platform, was not a fork and ended
\* normally, the platform rejecting nothing, has posted something on the
\* PR/MR: inline comments with a summary, or a note (no reviewable files,
\* or an error); it never ends with nothing posted.
C11_NeverSilent ==
    (EndedNormallyNoFork /\ NothingRejected) =>
        (DeliveredCalls # {} \/ error_notes # <<>>)

\* the comments of the run's post_review_comments calls
PostedComments ==
    UNION {{review_posts[j].comments[i] : i \in 1..Len(review_posts[j].comments)} :
              j \in 1..Len(review_posts)}

\* the comments the platform library was called with
SubmittedComments ==
    UNION {UNION {{p.calls[i].comments[n] : n \in 1..Len(p.calls[i].comments)} :
                     i \in 1..Len(p.calls)} :
              p \in {review_posts[j] : j \in 1..Len(review_posts)}}

\* the comment is on a file that passed the filter, on a new-file line of
\* that file's patch
OnReviewableDiffLine(path, line) ==
    \E k \in 1..Len(reviewable) :
        /\ reviewable[k].filename = path
        /\ line \in get_valid_comment_lines(reviewable[k].patch.value)

\* C12: every comment main passes to post_review_comments has the path of a
\* file that passed the reviewable filter and a line among the new-file line
\* numbers parsed from that file's patch; a proposed comment on another
\* path or line never reaches the platform.
C12_OnlyDiffLinesPosted ==
    /\ review_posts # <<>> => reviewable = filter_reviewable_files(pr_files)
    /\ \A c \in PostedComments : OnReviewableDiffLine(c.path, c.line)
    /\ \A c \in SubmittedComments : OnReviewableDiffLine(c.path, c.line)

\* two proposals, one on a path that is not in the change: one comment posted
C12_Witness ==
    /\ Len(review_posts) = 1
    /\ Len(all_comments) = 2
    /\ all_comments[1].file_path = ghost_py
    /\ Len(review_posts[1].comments) = 1
    /\ review_posts[1].comments[1].line = 11
    /\ review_posts[1].calls # <<>>

\* the number of comments of a post whose body carries the severity
PostedWithSeverity(post, severity) ==
    Cardinality({i \in 1..Len(post.comments) : post.comments[i].body[2] = severity})

\* C13: the summary main posts reports N, E, W, I counted over the validated
\* comments, the very list passed to post_review_comments and not the raw
\* model output: E, W, I are its numbers of error, warning and info
\* comments and N = E + W + I is its length.
C13_SummaryOverValidated ==
    \A j \in 1..Len(review_posts) :
        LET post == review_posts[j]
            E == PostedWithSeverity(post, "error")
            W == PostedWithSeverity(post, "warning")
            I == PostedWithSeverity(post, "info")
        IN /\ Len(post.summary) = 9
           /\ post.summary[2] = Len(post.comments)
           /\ post.summary[4] = E
           /\ post.summary[6] = W
           /\ post.summary[8] = I
           /\ post.summary[2] = E + W + I

\* three proposals over two files, two of them valid: an error and a warning
C13_Witness ==
    /\ Len(review_posts) = 1
    /\ Len(all_comments) = 3
    /\ Len(review_posts[1].comments) = 2
    /\ review_posts[1].summary[4] = 1
    /\ review_posts[1].summary[6] = 1
    /\ review_posts[1].summary[8] = 0

(***************************************************************************)
(* Properties of build_summary (SpecSummary).                              *)
(***************************************************************************)
\* C14: for two errors and one warning build_summary returns the text
\* "CodeGuardian Review: Found 3 issues (2 errors, 1 warning, 0 info)": the
\* count of one is followed by the singular word "warning".
C14_SingularWarning ==
    (/\ summary_pc = "returned"
     /\ CountSeverity(summary_in, "error") = 2
     /\ CountSeverity(summary_in, "warning") = 1
     /\ CountSeverity(summary_in, "info") = 0) =>
        summary_out = <<"CodeGuardian Review: Found ", 3, " issues (",
                        2, " errors, ", 1, " warning, ", 0, " info)">>

(***************************************************************************)
(* Properties of _call_openai, review_diff and review_files (Spec).        *)
(***************************************************************************)
\* the number of backend calls of the current review_diff before position i
CallsBefore(i) == Cardinality({j \in CallsAt : j < i})

\* C15: the backoff sleep that follows the k-th attempt of a call (k = 1 for
\* the first attempt) lasts 2^k seconds, it follows a rate-limited attempt,
\* and each sleep of a call lasts twice as long as the sleep before it.
C15_BackoffDoubles ==
    /\ \A i \in SleepsAt :
          /\ i > 1
          /\ io_log[i - 1].ev = "call"
          /\ io_log[i - 1].reply.exc = "RateLimitError"
          /\ io_log[i].wait = 2 ^ CallsBefore(i)
    /\ \A i, j \in SleepsAt :
          (i < j /\ ~(\E m \in SleepsAt : i < m /\ m < j)) =>
              io_log[j].wait = 2 * io_log[i].wait

\* two sleeps in one call: 2 seconds, then 4
C15_Witness ==
    /\ Cardinality(SleepsAt) = 2
    /\ io_log[2].wait = 2
    /\ io_log[4].wait = 4
    /\ call_pc = "loop"

\* what _call_openai returns for a reply that ends the call without an
\* exception: the summary text, or "none" when the reply is not of that kind
TerminalSummary(reply) ==
    IF reply.exc = "BadRequestError"
        THEN <<"Error: Content was filtered by the API.">>
    ELSE IF reply.exc = "none" /\ reply.refusal THEN <<"">>
    ELSE IF reply.exc = "none" /\ reply.finish_reason = "length"
        THEN <<"Error: Response truncated due to token limit.">>
    ELSE <<"none">>

\* C16: a content-filter (bad request) rejection, a refusal and a truncated
\* response each end _call_openai on the attempt where they occur: the
\* backend call is the last event of the call (no sleep, no further call),
\* nothing is raised, and the call returns zero comments, with an empty
\* summary for a refusal and an explanatory one for the other two.
C16_TerminalOutcomes ==
    \A i \in CallsAt :
        TerminalSummary(io_log[i].reply) # <<"none">> =>
            /\ i = Len(io_log)
            /\ call_pc = "returned"
            /\ ~last_response.is_none
            /\ last_response.value.comments = <<>>
            /\ last_response.value.summary = TerminalSummary(io_log[i].reply)
            /\ \A m \in 1..Len(raised_at) : raised_at[m].step # "review"

\* a refusal for the first file; for the second a rate limit, one sleep,
\* then a content-filter rejection
C16_Witness ==
    /\ Len(outcomes) = 2
    /\ outcomes[1].summary = <<"">>
    /\ Len(io_log) = 3
    /\ io_log[1].reply.exc = "RateLimitError"
    /\ io_log[3].reply.exc = "BadRequestError"
    /\ call_pc = "returned"

\* the comment lists of the outcomes, concatenated in order
RECURSIVE ConcatComments(_)
ConcatComments(responses) ==
    IF responses = <<>> THEN <<>>
    ELSE Head(responses).comments \o ConcatComments(Tail(responses))

\* an outcome that is refused, truncated, content-filtered or rate-limited
Degraded(response) ==
    response \in {RefusalResponse, TruncatedResponse, ContentFilterResponse,
                  RateLimitResponse}

\* C17: review_files collects the concatenation, in file order, of the
\* comment lists of the files' outcomes and returns it once every file has
\* an outcome; a refused, truncated, content-filtered or rate-limited
\* outcome contributes no comment and leaves the review going.
C17_ConcatInFileOrder ==
    /\ all_comments = ConcatComments(outcomes)
    /\ Len(outcomes) <= Len(reviewable)
    /\ \A k \in 1..Len(outcomes) : reviewed[k] = reviewable[k].filename
    /\ review_posts # <<>> => Len(outcomes) = Len(reviewable)
    /\ \A k \in 1..Len(outcomes) : Degraded(outcomes[k]) => outcomes[k].comments = <<>>
    /\ (call_pc = "returned" /\ Degraded(outcomes[Len(outcomes)])
          /\ review_posts = <<>>) =>
            (pc = "review" /\ error = "" /\ raised_at = <<>>)

\* a rate-limited first file, then a second file with a comment, returned
C17_Witness ==
    /\ Len(outcomes) = 2
    /\ outcomes[1] = RateLimitResponse
    /\ Len(outcomes[2].comments) = 1
    /\ all_comments = outcomes[2].comments
    /\ Len(review_posts) = 1

\* C18: with the credential "mock" or empty, review_diff makes no backend
\* call and no sleep, and returns the fixed outcome: one comment on the
\* given file path, line 1, severity info, and the mock summary.
C18_MockBypassesBackend ==
    api_key \in {"mock", ""} =>
        /\ io_log = <<>>
        /\ Len(outcomes) = Len(reviewed)
        /\ \A k \in 1..Len(outcomes) :
              outcomes[k] =
                [comments |-> <<[file_path |-> reviewed[k], line_number |-> 1,
                                 severity |-> "info", category |-> "readability",
                                 comment |-> "Mock review comment for testing."]>>,
                 summary |-> <<"Mock review completed.">>]

\* two files reviewed with no credential configured
C18_Witness ==
    /\ api_key = ""
    /\ Len(outcomes) = 2
    /\ reviewed = <<reviewable[1].filename, reviewable[2].filename>>

(***************************************************************************)
(* Properties of GitHubClient.post_review_comments (SpecPost).             *)
(***************************************************************************)
\* the post under check is GitHubClient's and is over
GitHubPostDone == post_platform = "github" /\ post_pc \in {"returned", "raised"}

IsBatch(call) == call.api = "create_review"
IsSingle(call) == call.api = "create_review_comment"

\* the create_review calls of the post, in order
BatchCalls == SelectSeq(post_out.calls, IsBatch)

\* the k-th run of 30 consecutive comments of the input (shorter at the end)
ExpectedChunk(k) ==
    SubSeq(github_comments(post_in), 30 * (k - 1) + 1, Min(30 * k, Len(post_in)))

\* C19: GitHubClient.post_review_comments splits n > 0 comments into
\* ceil(n/30) consecutive chunks that keep the input order and hold every
\* comment exactly once, all of size 30 but a shorter last one, and submits
\* one create_review per chunk, in order (up to the chunk at which a
\* rejection other than 422 ends the post).
C19_ChunksOfThirty ==
    (GitHubPostDone /\ Len(post_in) > 0) =>
        /\ \A k \in 1..Len(BatchCalls) :
              /\ BatchCalls[k].comments = ExpectedChunk(k)
              /\ Len(BatchCalls[k].comments) \in 1..30
              /\ k < (Len(post_in) + 29) \div 30 => Len(BatchCalls[k].comments) = 30
        /\ Len(BatchCalls) \in 1..((Len(post_in) + 29) \div 30)
        /\ post_pc = "returned" => Len(BatchCalls) = (Len(post_in) + 29) \div 30
        /\ post_pc = "raised" =>
              /\ post_out.calls[Len(post_out.calls)] = BatchCalls[Len(BatchCalls)]
              /\ BatchCalls[Len(BatchCalls)].status \notin {200, 422}

\* 61 comments, three accepted reviews: 30, 30 and 1
C19_Witness ==
    /\ GitHubPostDone /\ post_pc = "returned"
    /\ Len(post_in) = 61
    /\ Len(post_out.calls) = 3
    /\ Len(BatchCalls) = 3
    /\ Len(BatchCalls[3].comments) = 1

\* the positions of the individual attempts of a comment
SingleAttemptsOf(comment) ==
    {q \in 1..Len(post_out.calls) :
        IsSingle(post_out.calls[q]) /\ post_out.calls[q].comments = <<comment>>}

\* C20: after a batch review rejected with 422, every comment of that chunk
\* is attempted individually exactly once, in order; a rejected individual
\* comment raises nothing and stops neither the rest of the chunk nor the
\* next chunk's review from being attempted.
C20_FallbackAttemptsAll ==
    GitHubPostDone =>
        /\ \A p \in 1..Len(post_out.calls) :
              LET call == post_out.calls[p]
                  chunk == call.comments
              IN (IsBatch(call) /\ call.status = 422) =>
                    /\ p + Len(chunk) <= Len(post_out.calls)
                    /\ \A m \in 1..Len(chunk) :
                          /\ IsSingle(post_out.calls[p + m])
                          /\ post_out.calls[p + m].comments = <<chunk[m]>>
                          /\ SingleAttemptsOf(chunk[m]) = {p + m}
                    /\ chunk[Len(chunk)].line < Len(post_in) =>
                          /\ p + Len(chunk) + 1 <= Len(post_out.calls)
                          /\ IsBatch(post_out.calls[p + Len(chunk) + 1])
        /\ \A p \in 1..Len(post_out.calls) :
              IsSingle(post_out.calls[p]) =>
                  /\ post_out.calls[p].status
                       = (IF post_out.calls[p].comments[1].line \in post_answers.rejected
                            THEN 422 ELSE 201)
                  /\ (post_pc = "raised" => p < Len(post_out.calls))

\* 61 comments, the first two batches rejected with 422, the individual
\* comments on lines 1, 30 and 31 rejected, the third batch accepted
C20_Witness ==
    /\ GitHubPostDone /\ post_pc = "returned"
    /\ Len(post_in) = 61
    /\ post_answers.rejected = {1, 30, 31}
    /\ post_answers.batch = <<422, 422, 200>>
    /\ Len(post_out.calls) = 63
    /\ post_out.calls[2].status = 422
    /\ post_out.calls[3].status = 201

(***************************************************************************)
(* Properties of GitLabClient.post_review_comments (SpecPost).             *)
(***************************************************************************)
\* the post under check is GitLabClient's and is over
GitLabPostDone == post_platform = "gitlab" /\ post_pc \in {"returned", "raised"}

IsNote(call) == call.api = "notes.create"

\* C21: GitLabClient.post_review_comments attempts one inline discussion per
\* comment, in input order; a comment rejected with a create error raises
\* nothing and the later comments are still attempted; the summary note is
\* submitted exactly once, after all the comments, whatever number of them
\* were rejected (all of them, or an empty list, included).
C21_DiscussionsThenOneNote ==
    GitLabPostDone =>
        /\ Len(post_out.calls) = Len(post_in) + 1
        /\ \A i \in 1..Len(post_in) :
              /\ post_out.calls[i].api = "discussions.create"
              /\ post_out.calls[i].comments = <<post_in[i]>>
              /\ post_out.calls[i].status
                   = (IF post_in[i].line \in post_answers.rejected THEN 400 ELSE 201)
        /\ IsNote(post_out.calls[Len(post_in) + 1])
        /\ post_out.calls[Len(post_in) + 1].body = PostSummary
        /\ Cardinality({q \in 1..Len(post_out.calls) : IsNote(post_out.calls[q])}) = 1
        /\ post_pc = "raised" <=> post_out.calls[Len(post_in) + 1].status # 201

\* 31 comments, those on lines 1, 30 and 31 rejected, the note accepted
C21_Witness ==
    /\ GitLabPostDone /\ post_pc = "returned"
    /\ Len(post_in) = 31
    /\ post_answers.rejected = {1, 30, 31}
    /\ post_out.calls[31].status = 400
    /\ post_out.calls[32].status = 201

(***************************************************************************)
(* Further properties of parse_patch (SpecParse) and of                    *)
(* validate_comment_lines (SpecValidate).                                  *)
(***************************************************************************)
\* C22: every DiffLine parse_patch emits has a line_number >= 1, for every
\* patch text, addition or context lines before the first hunk header
\* included.
C22_PositiveLineNumbers ==
    \A i \in 1..Len(result) : result[i].line_number >= 1

\* the comments validate_comment_lines returned, as a set
KeptComments == {out_comments[i] : i \in 1..Len(out_comments)}

\* C23: a comment whose file_path has no patch in the mapping is discarded
\* by validate_comment_lines, which returns (nothing is raised); every
\* comment after it is still examined: it is kept exactly when its own path
\* has a patch and its own line is a line of that patch.
C23_MissingPatchSkipped ==
    /\ validate_pc \in {"idle", "call", "returned"}
    /\ validate_pc = "returned" =>
          \A i \in 1..Len(in_comments) :
              in_comments[i].file_path \notin DOMAIN in_patches =>
                  /\ in_comments[i] \notin KeptComments
                  /\ \A j \in (i + 1)..Len(in_comments) :
                        OnParsedLine(in_comments[j]) <=> in_comments[j] \in KeptComments

\* a comment on a file without a patch first, then a kept comment, then a
\* comment on a line outside the diff
C23_Witness ==
    /\ validate_pc = "returned"
    /\ in_patches = (main_py :> PatchA)
    /\ in_comments = <<ReviewComment(ghost_py, 11, "warning", "bug", "c"),
                       ReviewComment(main_py, 11, "warning", "bug", "c"),
                       ReviewComment(main_py, 999, "warning", "bug", "c")>>
    /\ out_comments = <<ReviewComment(main_py, 11, "warning", "bug", "c")>>

(***************************************************************************)
(* Further properties of main and of the reviewer (Spec).                  *)
(***************************************************************************)
\* C24: get_file_content of either client returns None instead of raising,
\* for a missing file as for any other failure of the fetch, so that the
\* project-context fetch never ends the run: a run that found a platform
\* gets as far as the fork check.
C24_ContextFetchNeverRaises ==
    (pc = "done" /\ env_platform \in {"github", "gitlab"}) =>
        /\ is_fork_result # "not_called"
        /\ propagated # "Exception"

\* a reply that is neither refused nor truncated and whose payload json.loads
\* or model_validate rejects
Malformed(reply) ==
    /\ reply.exc = "none" /\ ~reply.refusal /\ reply.finish_reason # "length"
    /\ reply.payload # "valid"

\* a reply that is neither refused nor truncated and parses
WellFormed(reply) ==
    /\ reply.exc = "none" /\ ~reply.refusal /\ reply.finish_reason # "length"
    /\ reply.payload = "valid"

\* C25: a response that is neither refused nor truncated and whose payload
\* does not parse or validate makes _call_openai raise on that attempt: the
\* call is the last event (no retry, no sleep) and no ReviewResponse is
\* returned for the file.
C25_MalformedRaises ==
    \A i \in CallsAt :
        Malformed(io_log[i].reply) =>
            /\ i = Len(io_log)
            /\ call_pc = "raised"
            /\ last_response.is_none
            /\ Len(outcomes) = Len(reviewed) - 1
            /\ raised_at # <<>>
            /\ raised_at[1] = [step |-> "review", exc |-> "ValidationError"]

\* an unparsable payload on the second attempt of the second file
C25_Witness ==
    /\ Len(reviewed) = 2
    /\ Len(io_log) = 3
    /\ io_log[1].reply.exc = "RateLimitError"
    /\ Malformed(io_log[3].reply)
    /\ error = "ValidationError"

\* the file names of the files get_files returned that pass the filter, in
\* the order get_files returned them
ReviewOrder ==
    LET kept == SelectSeq(pr_files, keep_file)
    IN [k \in 1..Len(kept) |-> kept[k].filename]

\* C26: the model is called for the reviewable files one at a time, in the
\* order get_files returned them: a file's call (retries and sleeps
\* included) is over before the next file's begins, no file is reviewed
\* twice, and nothing is reviewed before the fork check and the filter.
C26_OneFileAtATime ==
    /\ Len(reviewed) <= Len(ReviewOrder)
    /\ \A k \in 1..Len(reviewed) : reviewed[k] = ReviewOrder[k]
    /\ \A a, b \in 1..Len(reviewed) : a # b => reviewed[a] # reviewed[b]
    /\ Len(reviewed) - Len(outcomes) \in {0, 1}
    /\ Len(reviewed) - Len(outcomes) = 1 <=> call_pc \in {"loop", "raised"}
    /\ io_log # <<>> => reviewed # <<>>
    /\ reviewed # <<>> =>
          /\ is_fork_result = "False"
          /\ get_files_calls = 1
          /\ reviewable = filter_reviewable_files(pr_files)

\* the second file's call in its second attempt, the first file's call over
C26_Witness ==
    /\ Len(reviewed) = 2
    /\ Len(outcomes) = 1
    /\ call_pc = "loop"
    /\ Len(io_log) = 2
    /\ reviewed[1] = pr_files[1].filename

\* C27: when the first j attempts (1 <= j < MAX_RETRIES) are rate-limited and
\* attempt j+1 is answered by a well-formed response, the call returns that
\* response's comments and summary after exactly j+1 backend calls and j
\* sleeps; and no review_diff ever makes more than MAX_RETRIES backend calls.
C27_RetryThenSuccess ==
    /\ Cardinality(CallsAt) <= MAX_RETRIES
    /\ (io_log # <<>> /\ WellFormed(io_log[Len(io_log)].reply)) =>
          LET j == Cardinality(CallsAt) - 1
          IN /\ \A i \in CallsAt \ {Len(io_log)} :
                   io_log[i].reply.exc = "RateLimitError"
             /\ j < MAX_RETRIES
             /\ Cardinality(SleepsAt) = j
             /\ Len(io_log) = 2 * j + 1
             /\ call_pc = "returned"
             /\ last_response
                  = Some([comments |-> io_log[Len(io_log)].reply.comments,
                          summary |-> io_log[Len(io_log)].reply.summary])

\* two rate limits, then a response with a comment
C27_Witness ==
    /\ Len(io_log) = 5
    /\ WellFormed(io_log[5].reply)
    /\ Cardinality(SleepsAt) = 2
    /\ call_pc = "returned"
    /\ Len(last_response.value.comments) = 1

\* a reply that makes the model call raise
Raising(reply) ==
    \/ reply.exc \notin {"none", "BadRequestError", "RateLimitError"}
    \/ Malformed(reply)

\* C28: when the model call for the k-th file raises (authentication
\* failure, unparsable payload), the exception leaves review_files for
\* main's handler, the comments collected from files 1..k-1 are not
\* returned, and main passes no inline comment to post_review_comments.
C28_RaiseDropsCollected ==
    (\E i \in CallsAt : Raising(io_log[i].reply)) =>
        /\ call_pc = "raised"
        /\ pc \in {"except", "done"}
        /\ raised_at # <<>>
        /\ raised_at[1].step = "review"
        /\ error = raised_at[1].exc
        /\ Len(outcomes) = Len(reviewed) - 1
        /\ review_posts = <<>>

\* a comment collected from the first file, the second file's call raising
C28_Witness ==
    /\ Len(outcomes) = 1
    /\ all_comments # <<>>
    /\ Len(reviewed) = 2
    /\ call_pc = "raised"
    /\ error = "ValidationError"
    /\ pc = "done"
    /\ review_posts = <<>>

(***************************************************************************)
(* Further properties of GitHubClient.post_review_comments (SpecPost).     *)
(***************************************************************************)
\* the calls of the post that carry the summary
SummaryCalls ==
    {q \in 1..Len(post_out.calls) : post_out.calls[q].body = PostSummary}

\* C29: GitHubClient.post_review_comments submits the summary once per
\* chunk, as the body of each create_review call and of no other call: a
\* post of n comments that returns submits it ceil(n/30) times, and with
\* n = 0 the post returns without any call.
C29_SummaryPerChunk ==
    GitHubPostDone =>
        /\ \A q \in 1..Len(post_out.calls) :
              IsBatch(post_out.calls[q]) <=> q \in SummaryCalls
        /\ post_pc = "returned" =>
              Cardinality(SummaryCalls) = (Len(post_in) + 29) \div 30
        /\ Len(post_in) = 0 => (post_out.calls = <<>> /\ post_pc = "returned")

\* 31 comments, the first batch falling back to individual comments: the
\* summary goes out twice among 32 calls
C29_Witness ==
    /\ GitHubPostDone /\ post_pc = "returned"
    /\ Len(post_in) = 31
    /\ Len(post_out.calls) = 32
    /\ SummaryCalls = {1, 32}

(***************************************************************************)
(* A batch review that GitHub refuses with another status than 422         *)
(* (SpecLong).                                                             *)
(***************************************************************************)
\* the batch reviews of a post that GitHub answered with neither 200 nor 422
RefusedBatches(post) ==
    {q \in 1..Len(post.calls) :
        IsBatch(post.calls[q]) /\ post.calls[q].status \notin {200, 422}}

\* C30: when a batch create_review fails with a status other than 422,
\* GitHubClient.post_review_comments raises at that chunk: the refused call
\* is the last call of the post, comments after that chunk are never
\* submitted and no individual fallback follows it; the calls accepted
\* before it stay in the platform's log; and main, once it has ended, has
\* made exactly one error note, naming that exception.
C30_NonRetryableBatchRaises ==
    \A j \in 1..Len(review_posts) :
        LET post == review_posts[j]
        IN \A q \in RefusedBatches(post) :
              /\ q = Len(post.calls)
              /\ ~post.ok
              /\ Len(review_posts) = 1
              /\ raised_at # <<>>
              /\ raised_at[1] = [step |-> "post", exc |-> "GithubException"]
              /\ pc = "done" => error_notes = <<ErrorNote("GithubException")>>

\* a run whose first chunk of 30 comments was accepted and whose second
\* chunk was refused with 500: the pull request carries 30 inline comments
\* and the error note, and main returned
C30_Witness ==
    /\ pc = "done" /\ exit_status = "returned"
    /\ Len(review_posts) = 1
    /\ Len(review_posts[1].comments) = REVIEW_COMMENT_CHUNK_SIZE + 1
    /\ Len(review_posts[1].calls) = 2
    /\ review_posts[1].calls[1].status = 200
    /\ Len(review_posts[1].calls[1].comments) = REVIEW_COMMENT_CHUNK_SIZE
    /\ RefusedBatches(review_posts[1]) = {2}
    /\ error_notes = <<ErrorNote("GithubException")>>

====
